---------------------------- MODULE Spec2Model ----------------------------
(***************************************************************************)
(* Tortoise-BOT: the REST client (bot/api_client.py) and the TortoiseServer *)
(* cog (bot/cogs/tortoise_server.py) as state machines.                     *)
(*                                                                          *)
(*   SpecREST   one call of a verb method of APIClient on one response      *)
(*   Spec       the membership handlers: on_member_join and the paths it    *)
(*              dispatches to, add_verified_roles_to_member, the            *)
(*              on_member_update listener, interleaved at await points      *)
(*   SpecReact  the react-for-roles listeners                               *)
(*   SpecSubmit the submit command                                          *)
(*   SpecMod    a verified re-join while others change a resident member     *)
(*   SpecWarn   add_member_warning calls for one member                      *)
(*   SpecRules  the rules cache: the refresh loop and the rule commands      *)
(*   SpecVerify one call of is_verified or does_member_exist                 *)
(***************************************************************************)
EXTENDS Integers, Sequences, FiniteSets, TLC

VARIABLES
    rest_req,      \* SpecREST: the verb called and the response the server gave
    rest_out,      \* SpecREST: what the call did (returned / raised), or Pending
    db,            \* remote member records, by member id (owned by the REST API)
    member_roles,  \* guild state: the role ids each member holds
    lock,          \* TortoiseServer._database_role_update_lock
    events,        \* member-update events emitted by the gateway, not yet dispatched
    edits,         \* edit_member_roles requests on_member_update awaits the answer of
    tasks,         \* the handler invocations started so far, by slot
    py_alias,      \* the build: asyncio.TimeoutError is the builtin TimeoutError
    env,           \* changes made so far from outside the cog's handlers
    warnings,      \* the warnings list stored in the remote member-meta record
    rules          \* TortoiseServer._rules

vars == <<rest_req, rest_out, db, member_roles, lock, events, edits, tasks, py_alias,
          env, warnings, rules>>

-----------------------------------------------------------------------------
(* REST client: bot/api_client.py                                           *)

Verbs == {"get", "patch", "post", "put", "delete"}

\* Response statuses the model draws from: 2xx, a 3xx, 4xx and 5xx.
Statuses == {200, 204, 304, 400, 404, 500}

\* Content types: application/json, or anything else.
ContentTypes == {"json", "other"}

\* Raw bodies: empty; the JSON texts of an empty object, an empty list, false
\* and a non-empty object; text that is not JSON.
Bodies == {"", "{}", "[]", "false", "{k:1}", "<html>"}

Responses == [status : Statuses, ctype : ContentTypes, body : Bodies]

\* Values (outcomes) of a call.  kind "return" carries value; kind "raise"
\* carries exc and, for ResponseCodeError, its three attributes.
Outcome(kind, exc, value, status, rjson, rtext) ==
    [kind |-> kind, exc |-> exc, value |-> value,
     status |-> status, response_json |-> rjson, response_text |-> rtext]

Return(value) == Outcome("return", "none", value, 0, "{}", "")

Raise(exc) == Outcome("raise", exc, "None", 0, "{}", "")

\* Python truthiness of a parsed JSON value, named by its JSON text: None,
\* {}, [], False, 0 and "" are falsy.
Truthy(value) == value \notin {"None", "{}", "[]", "false", "0", "\"\""}

\* aiohttp ClientResponse.json(): the content type is checked first; a blank
\* body decodes to None; otherwise the decoder runs on the body.
resp_json(resp) ==
    IF resp.ctype # "json" THEN Raise("ContentTypeError")
    ELSE IF resp.body = "" THEN Return("None")
    ELSE IF resp.body = "<html>" THEN Raise("JSONDecodeError")
    ELSE Return(resp.body)

\* aiohttp ClientResponse.text(): the raw body.
resp_text(resp) == resp.body

\* ResponseCodeError.__init__
ResponseCodeError(resp, response_json, response_text) ==
    Outcome("raise", "ResponseCodeError", "None", resp.status,
            IF Truthy(response_json) THEN response_json ELSE "{}",
            response_text)

\* The status test with its boundary off by one: a 400 is let through.
should_raise_above_400(status) == status > 400

\* The status test of raise_for_status.
should_raise(status) == status >= 400

\* APIClient.raise_for_status: Return("None") when nothing is raised.
raise_for_status(resp) ==
    IF should_raise(resp.status)
    THEN LET j == resp_json(resp) IN
         IF j.kind = "return" THEN ResponseCodeError(resp, j.value, "")
         ELSE IF j.exc = "ContentTypeError"
              THEN ResponseCodeError(resp, "None", resp_text(resp))
              ELSE j
    ELSE Return("None")

\* APIClient.get / patch / post / put
verb_body(resp) ==
    LET r == raise_for_status(resp) IN
    IF r.kind = "raise" THEN r ELSE resp_json(resp)

\* delete without its test for 204: the body is read like any other.
delete_reads_204(resp) == verb_body(resp)

\* APIClient.delete
delete(resp) ==
    IF resp.status = 204 THEN Return("None") ELSE verb_body(resp)

\* One call of a verb method on the response the session produced.
call(verb, resp) == IF verb = "delete" THEN delete(resp) ELSE verb_body(resp)

Pending == Outcome("pending", "none", "None", 0, "{}", "")

NoRequest == [verb |-> "none", resp |-> [status |-> 0, ctype |-> "other", body |-> ""]]


-----------------------------------------------------------------------------
(* Guild, roles and the remote member records                               *)

\* Members that can join the guild.
Members == {"m1", "m2"}

\* self.bot.user
BotUser == "bot"

\* Users the guild holds a member object for.
GuildUsers == Members \cup {BotUser}

\* constants.unverified_role_id / constants.verified_role_id, as cached by
\* TortoiseServer.__init__.
unverified_role == "unverified"

verified_role == "verified"

\* Roles that exist in the guild; "gone" is a role id that was stored remotely
\* and has since been deleted from the guild.
GuildRoles == {"unverified", "verified", "r1"}

\* Guild.get_role: the role, or None for an id the guild does not have.
get_role(role_id) == IF role_id \in GuildRoles THEN role_id ELSE "None"

\* member.roles is ordered by position in the guild's hierarchy.
RoleOrder == <<"unverified", "verified", "r1">>

\* The ids of the roles in S, lowest position last.
roles_ids_reversed(S) ==
    LET keep(r) == r \in S
        up == SelectSeq(RoleOrder, keep)
    IN [i \in 1 .. Len(up) |-> up[Len(up) + 1 - i]]

\* [role.id for role in after.roles]
roles_ids(S) == LET keep(r) == r \in S IN SelectSeq(RoleOrder, keep)

Rec(exists, verified, member, leave_date, roles) ==
    [exists |-> exists, verified |-> verified, member |-> member,
     leave_date |-> leave_date, roles |-> roles]

NoRecord == Rec(FALSE, FALSE, FALSE, "null", <<>>)

\* Role lists stored for a verified member who left: all of its roles still
\* exist, or one of them ("gone") was deleted from the guild since.
StoredRoleLists == {<<"r1">>, <<"gone", "r1">>}

\* Records the remote API can hold when the bot starts: none; a verified or
\* unverified member who is current (leave_date null); one who left.
InitRecords ==
    {NoRecord, Rec(TRUE, TRUE, TRUE, "null", <<"r1">>),
     Rec(TRUE, FALSE, TRUE, "null", <<>>), Rec(TRUE, FALSE, FALSE, "t0", <<>>)}
    \cup {Rec(TRUE, TRUE, FALSE, "t0", rs) : rs \in StoredRoleLists}

\* The payloads of the writes (the fields each one sends).
insert_new_member_data == [member |-> TRUE]

member_rejoined_data == [member |-> TRUE, leave_date |-> "null"]

edit_member_roles_data(ids) == [roles |-> ids]

member_left_data == [member |-> FALSE, leave_date |-> "t1"]

\* The remote API applies a write as an update of the fields it is sent.
ApplyWrite(rec, data) ==
    [f \in DOMAIN rec |->
        IF f = "exists" THEN TRUE
        ELSE IF f \in DOMAIN data THEN data[f] ELSE rec[f]]

\* Responses of the remote API the membership model draws from.
OkResp == [status |-> 200, ctype |-> "json", body |-> "{k:1}"]

NotFoundResp == [status |-> 404, ctype |-> "json", body |-> "{k:1}"]

ErrResp == [status |-> 500, ctype |-> "other", body |-> "<html>"]

\* A read or an update of a member's record: 404 when there is none.
RecordResponses(rec) == IF rec.exists THEN {OkResp, ErrResp} ELSE {NotFoundResp, ErrResp}

\* POST members/
InsertResponses == {OkResp, ErrResp}

-----------------------------------------------------------------------------
(* Handler invocations (tasks)                                              *)

MaxTasks == 2

TaskIds == 1 .. MaxTasks

Task(kind, member, pc) ==
    [kind |-> kind, member |-> member, pc |-> pc, status |-> "running",
     exc |-> "none", lookup |-> 0, snap |-> NoRecord, previous_roles |-> <<>>,
     todo |-> <<>>, cur |-> "None", served |-> "none", added |-> {},
     trace |-> <<>>, new_warning |-> "None", current_warnings |-> <<>>,
     fetched |-> Pending, shown |-> <<>>, sends |-> <<>>,
     fault |-> FALSE, raised_by |-> "none", emoji |-> "none", channel |-> "none"]

NoTask == Task("none", "none", "none")

Started == {t \in TaskIds : tasks[t].kind # "none"}

Call(op, arg) == [op |-> op, arg |-> arg]

\* The task record after it logged a call.
Did(task, op, arg) == [task EXCEPT !.trace = Append(@, Call(op, arg))]

\* The task makes a call and awaits it at pc.
Issue(task, pc, op, arg) == [Did(task, op, arg) EXCEPT !.pc = pc]

\* The task makes a role request (member.add_roles / member.remove_roles) and
\* awaits it at pc; Discord has not served it yet.
IssueRole(task, pc, op, role) ==
    [Did(task, op, role) EXCEPT !.pc = pc, !.cur = role, !.served = "no"]

Finish(task) == [task EXCEPT !.pc = "end", !.status = "done"]

Throw(task, exc) == [task EXCEPT !.pc = "end", !.status = "raised", !.exc = exc]

\* The task got resp for the call it awaits (the last one it made) and the
\* verb method raised: fault marks the handler as hit by a failure, raised_by
\* names the call.
Failed(task, resp) ==
    IF verb_body(resp).kind = "raise"
    THEN [task EXCEPT !.fault = TRUE, !.raised_by = task.trace[Len(task.trace)].op]
    ELSE task

\* The registration path with the role assigned first and the insert left out.
register_without_insert(task) ==
    IssueRole(task, "add_unverified", "add_roles", unverified_role)

\* _new_member_register_in_database, up to its first await.
new_member_register_in_database(task) ==
    Issue(task, "insert_new_member", "insert_new_member", task.member)

\* _new_member_re_joined, up to its first await.
new_member_re_joined(task, verified) ==
    IF verified
    THEN Issue(task, "get_member_roles", "get_member_roles", task.member)
    ELSE Issue(task, "member_rejoined_u", "member_rejoined", task.member)

\* The test with the leave_date comparison inverted.
is_current_verified_inverted(meta) == meta.leave_date # "null" /\ meta.verified

\* The test of on_member_join on the fetched member_meta.
is_current_verified(meta) == meta.leave_date = "null" /\ meta.verified

\* on_member_join after get_member_meta answered with out; meta is the record
\* the answer carries.
on_member_join_dispatch(task, out, meta) ==
    IF out.kind = "raise"
    THEN IF out.exc = "ResponseCodeError"
         THEN new_member_register_in_database(task)
         ELSE Throw(task, out.exc)
    ELSE IF is_current_verified(meta)
         THEN Finish(task)
         ELSE new_member_re_joined(task, meta.verified)

\* The list add_verified_roles_to_member iterates over.
roles_to_add(additional_roles) ==
    [i \in 1 .. Len(additional_roles) |-> get_role(additional_roles[i])]
        \o <<verified_role>>

\* What follows the loop of add_verified_roles_to_member in its caller
\* _new_member_re_joined.
after_add_verified_roles(task) ==
    Issue(task, "member_rejoined_v", "member_rejoined", task.member)

\* One turn of the loop of add_verified_roles_to_member, up to the next await:
\* member.add_roles(None) raises AttributeError before any request is sent.
loop_step(task) ==
    IF task.todo = <<>> THEN after_add_verified_roles(task)
    ELSE IF Head(task.todo) = "None"
         THEN Throw(Did(task, "add_roles", "None"), "AttributeError")
         ELSE IssueRole([task EXCEPT !.todo = Tail(@)], "add_role", "add_roles",
                        Head(task.todo))

\* The flag after one turn of the loop: cleared once the loop is over.
lock_after_loop_step(task, flag) == IF task.todo = <<>> THEN FALSE ELSE flag


\* Variables the membership handlers never touch.
other_vars == <<rest_req, rest_out, py_alias, env, warnings, rules>>

Running(t, pc) == tasks[t].status = "running" /\ tasks[t].pc = pc

\* The slot of the next handler invocation.
NextSlot == Cardinality(Started) + 1

\* The gateway delivers a member-join event: on_member_join runs up to its
\* first await (get_member_meta).
on_member_join(m) ==
    /\ NextSlot <= MaxTasks
    /\ tasks' = [tasks EXCEPT ![NextSlot] =
            Issue(Task("join", m, "start"), "get_member_meta", "get_member_meta", m)]
    /\ UNCHANGED <<db, member_roles, lock, events, edits, other_vars>>

\* get_member_meta answers; on_member_join dispatches.
JoinMeta(t) ==
    /\ Running(t, "get_member_meta")
    /\ \E resp \in RecordResponses(db[tasks[t].member]) :
         LET rec  == db[tasks[t].member]
             task == [tasks[t] EXCEPT
                         !.lookup = resp.status, !.snap = rec,
                         !.raised_by = IF call("get", resp).kind = "raise"
                                       THEN "get_member_meta" ELSE @]
         IN tasks' = [tasks EXCEPT ![t] = on_member_join_dispatch(task, call("get", resp), rec)]
    /\ UNCHANGED <<db, member_roles, lock, events, edits, other_vars>>

\* insert_new_member answers; its failure is swallowed and the handler goes on.
JoinInsertSwallowed(t) ==
    /\ tasks[t].status = "running" /\ tasks[t].pc = "insert_new_member"
    /\ \E resp \in InsertResponses :
         /\ tasks' = [tasks EXCEPT ![t] =
                IssueRole(Failed(@, resp), "add_unverified", "add_roles", unverified_role)]
         /\ db' = IF call("post", resp).kind = "raise" THEN db
                  ELSE [db EXCEPT ![tasks[t].member] = ApplyWrite(@, insert_new_member_data)]
    /\ UNCHANGED <<member_roles, lock, events, edits, other_vars>>

\* insert_new_member answers; on success the unverified role is requested.
JoinInsert(t) ==
    /\ Running(t, "insert_new_member")
    /\ \E resp \in InsertResponses :
         LET out == call("post", resp)
             m   == tasks[t].member
         IN IF out.kind = "raise"
            THEN /\ tasks' = [tasks EXCEPT ![t] = Throw(Failed(@, resp), out.exc)]
                 /\ db' = db
            ELSE /\ tasks' = [tasks EXCEPT ![t] =
                        IssueRole(@, "add_unverified", "add_roles", unverified_role)]
                 /\ db' = [db EXCEPT ![m] = ApplyWrite(@, insert_new_member_data)]
    /\ UNCHANGED <<member_roles, lock, events, edits, other_vars>>

\* Whether the request a task awaits at pc removes the role (else it adds it).
IsRemoval(pc) == pc \in {"remove_unverified", "react_remove"}

\* What caused a role change: the loop of add_verified_roles_to_member
\* ("bulk"), its remove_roles before the loop, a join path, a reaction.
Origin(pc) ==
    CASE pc = "add_role" -> "bulk"
      [] pc = "remove_unverified" -> "bulk_remove"
      [] pc \in {"react_add", "react_remove"} -> "reaction"
      [] OTHER -> "join"

\* Discord serves a pending role request of task t: the member's roles change
\* and the gateway emits a member-update event, or the request fails
\* (HTTPException).
ServeRoleOp(t) ==
    /\ tasks[t].status = "running"
    /\ tasks[t].served = "no"
    /\ LET m      == tasks[t].member
           before == member_roles[m]
           after  == IF IsRemoval(tasks[t].pc) THEN before \ {tasks[t].cur}
                     ELSE before \cup {tasks[t].cur}
       IN \/ /\ member_roles' = [member_roles EXCEPT ![m] = after]
             /\ events' = IF after = before THEN events
                          ELSE Append(events, [member |-> m, before |-> before,
                                               after |-> after,
                                               origin |-> Origin(tasks[t].pc)])
             /\ tasks' = [tasks EXCEPT ![t].served = "ok",
                                       ![t].added = IF IsRemoval(tasks[t].pc) THEN @
                                                    ELSE @ \cup {tasks[t].cur}]
          \/ /\ tasks' = [tasks EXCEPT ![t].served = "http", ![t].fault = TRUE]
             /\ UNCHANGED <<member_roles, events>>
    /\ UNCHANGED <<db, lock, edits, other_vars>>

Served(t, pc) == Running(t, pc) /\ tasks[t].served # "no"

\* The sends that end each path, in the order the code makes them.
Sends ==
    [reg_sends |-> <<"verification_channel", "log_channel", "member">>,
     ver_sends |-> <<"log_channel", "member">>,
     unv_sends |-> <<"log_channel", "verification_channel", "member">>]

\* The task makes the next of the sends left to it and awaits it, or ends
\* when none is left.
next_send(task) ==
    IF task.sends = <<>> THEN Finish(task)
    ELSE Issue([task EXCEPT !.sends = Tail(@)], "send", "send", Head(task.sends))

\* The task enters the sends of a path: the first one is made.
start_sends(task, path) == next_send([task EXCEPT !.sends = Sends[path]])

\* The send a handler awaits returns, or raises HTTPException (for example
\* Forbidden: the member accepts no DM), which leaves the handler.
JoinSend(t) ==
    /\ Running(t, "send")
    /\ \E ok \in BOOLEAN :
         tasks' = [tasks EXCEPT ![t] =
            IF ok THEN next_send(@)
            ELSE Throw([@ EXCEPT !.fault = TRUE], "HTTPException")]
    /\ UNCHANGED <<db, member_roles, lock, events, edits, other_vars>>

\* member.add_roles(self.unverified_role) of the registration path returns.
JoinAddUnverified(t) ==
    /\ Served(t, "add_unverified")
    /\ tasks' = [tasks EXCEPT ![t] =
            IF @.served = "http" THEN Throw(@, "HTTPException")
            ELSE start_sends(@, "reg_sends")]
    /\ UNCHANGED <<db, member_roles, lock, events, edits, other_vars>>

\* get_member_roles answers; add_verified_roles_to_member starts and requests
\* the removal of the unverified role.
JoinGetRoles(t) ==
    /\ Running(t, "get_member_roles")
    /\ \E resp \in RecordResponses(db[tasks[t].member]) :
         LET out == call("get", resp)
             rec == db[tasks[t].member]
         IN tasks' = [tasks EXCEPT ![t] =
                IF out.kind = "raise" THEN Throw(Failed(@, resp), out.exc)
                ELSE IssueRole([@ EXCEPT !.previous_roles = rec.roles],
                               "remove_unverified", "remove_roles", unverified_role)]
    /\ UNCHANGED <<db, member_roles, lock, events, edits, other_vars>>

\* add_verified_roles_to_member: remove_roles returned (an HTTPException is
\* caught); the flag is set, the role list built and the loop entered.
AddVerifiedStart(t) ==
    /\ Served(t, "remove_unverified")
    /\ LET task == [tasks[t] EXCEPT !.todo = roles_to_add(tasks[t].previous_roles)]
       IN /\ tasks' = [tasks EXCEPT ![t] = loop_step(task)]
          /\ lock' = lock_after_loop_step(task, TRUE)
    /\ UNCHANGED <<db, member_roles, events, edits, other_vars>>

\* add_verified_roles_to_member: add_roles returned (an HTTPException is
\* caught); the loop goes on, or ends and clears the flag.
AddVerifiedLoop(t) ==
    /\ Served(t, "add_role")
    /\ tasks' = [tasks EXCEPT ![t] = loop_step(@)]
    /\ lock' = lock_after_loop_step(tasks[t], lock)
    /\ UNCHANGED <<db, member_roles, events, edits, other_vars>>

\* member_rejoined answers on the verified path.
JoinRejoinedVerified(t) ==
    /\ Running(t, "member_rejoined_v")
    /\ \E resp \in RecordResponses(db[tasks[t].member]) :
         LET out == call("put", resp)
             m   == tasks[t].member
         IN IF out.kind = "raise"
            THEN /\ tasks' = [tasks EXCEPT ![t] = Throw(Failed(@, resp), out.exc)]
                 /\ db' = db
            ELSE /\ tasks' = [tasks EXCEPT ![t] = start_sends(@, "ver_sends")]
                 /\ db' = [db EXCEPT ![m] = ApplyWrite(@, member_rejoined_data)]
    /\ UNCHANGED <<member_roles, lock, events, edits, other_vars>>

\* member_rejoined answers on the unverified path; the unverified role is
\* requested.
JoinRejoinedUnverified(t) ==
    /\ Running(t, "member_rejoined_u")
    /\ \E resp \in RecordResponses(db[tasks[t].member]) :
         LET out == call("put", resp)
             m   == tasks[t].member
         IN IF out.kind = "raise"
            THEN /\ tasks' = [tasks EXCEPT ![t] = Throw(Failed(@, resp), out.exc)]
                 /\ db' = db
            ELSE /\ tasks' = [tasks EXCEPT ![t] =
                        IssueRole(@, "readd_unverified", "add_roles", unverified_role)]
                 /\ db' = [db EXCEPT ![m] = ApplyWrite(@, member_rejoined_data)]
    /\ UNCHANGED <<member_roles, lock, events, edits, other_vars>>

\* member.add_roles(self.unverified_role) of the unverified re-join returns.
JoinReaddUnverified(t) ==
    /\ Served(t, "readd_unverified")
    /\ tasks' = [tasks EXCEPT ![t] =
            IF @.served = "http" THEN Throw(@, "HTTPException")
            ELSE start_sends(@, "unv_sends")]
    /\ UNCHANGED <<db, member_roles, lock, events, edits, other_vars>>

\* The gateway dispatches the oldest member-update event: on_member_update
\* returns at its guard, or sends edit_member_roles and awaits the answer.
on_member_update ==
    /\ events # <<>>
    /\ LET e == Head(events)
       IN IF e.before = e.after \/ lock
          THEN UNCHANGED edits
          ELSE edits' = Append(edits, [member |-> e.member, roles |-> roles_ids(e.after),
                                       origin |-> e.origin])
    /\ events' = Tail(events)
    /\ UNCHANGED <<db, member_roles, lock, tasks, other_vars>>

\* The sequence without its element i.
Without(seq, i) == SubSeq(seq, 1, i - 1) \o SubSeq(seq, i + 1, Len(seq))

\* The remote API answers the put of an awaited edit_member_roles, in any
\* order: the write is applied, or the call raises out of on_member_update;
\* either way that invocation of the listener is over.
EditAnswered(i) ==
    /\ i \in DOMAIN edits
    /\ \E resp \in RecordResponses(db[edits[i].member]) :
         db' = IF call("put", resp).kind = "raise" THEN db
               ELSE [db EXCEPT ![edits[i].member] =
                        ApplyWrite(@, edit_member_roles_data(edits[i].roles))]
    /\ edits' = Without(edits, i)
    /\ UNCHANGED <<member_roles, lock, events, tasks, other_vars>>

Init ==
    /\ rest_req = NoRequest
    /\ rest_out = Pending
    /\ db \in {f \in [GuildUsers -> InitRecords] :
                 /\ f[BotUser] = NoRecord
                 /\ f["m2"] = Rec(TRUE, TRUE, FALSE, "t0", <<"r1">>)}
    /\ member_roles = [m \in GuildUsers |-> {}]
    /\ lock = FALSE
    /\ events = <<>>
    /\ edits = <<>>
    /\ tasks = [t \in TaskIds |-> NoTask]
    /\ py_alias = FALSE
    /\ env = 0
    /\ warnings = <<>>
    /\ rules = "None"

Next ==
    \/ \E m \in Members : on_member_join(m)
    \/ \E t \in TaskIds :
         \/ JoinMeta(t)
         \/ JoinInsert(t)
         \/ ServeRoleOp(t)
         \/ JoinAddUnverified(t)
         \/ JoinSend(t)
         \/ JoinGetRoles(t)
         \/ AddVerifiedStart(t)
         \/ AddVerifiedLoop(t)
         \/ JoinRejoinedVerified(t)
         \/ JoinRejoinedUnverified(t)
         \/ JoinReaddUnverified(t)
    \/ on_member_update
    \/ \E i \in DOMAIN edits : EditAnswered(i)

Spec == Init /\ [][Next]_vars

\* The join handlers alone: member m1 joins, any number of times and
\* concurrently, and the gateway delivers no member-update event meanwhile.
NextJoin ==
    \/ on_member_join("m1")
    \/ \E t \in TaskIds :
         \/ JoinMeta(t)
         \/ JoinInsert(t)
         \/ ServeRoleOp(t)
         \/ JoinAddUnverified(t)
         \/ JoinSend(t)
         \/ JoinGetRoles(t)
         \/ AddVerifiedStart(t)
         \/ AddVerifiedLoop(t)
         \/ JoinRejoinedVerified(t)
         \/ JoinRejoinedUnverified(t)
         \/ JoinReaddUnverified(t)

SpecJoin == Init /\ [][NextJoin]_vars



-----------------------------------------------------------------------------
(* Role-Reaction Assigner: bot/cogs/tortoise_server.py                      *)

\* constants.react_for_roles_channel_id, and some other channel.
react_for_roles_channel_id == "react_for_roles"

Channels == {react_for_roles_channel_id, "general"}

\* constants.self_assignable_roles: emoji id -> role id.  "e_gone" maps to a
\* role id the guild no longer has; "e_none" has no entry.
self_assignable_roles == [e_r1 |-> "r1", e_gone |-> "gone"]

Emojis == {"e_r1", "e_gone", "e_none"}

\* Users that react: a member, the bot, and a user the guild has no cached
\* member object for.
ReactUsers == {"m1", BotUser, "ghost"}

\* Guild.get_member: None for a user that is not cached.
get_member(user_id) == IF user_id \in GuildUsers THEN user_id ELSE "None"

\* TortoiseServer.get_assignable_role: the role, or None (after logging).
get_assignable_role(emoji) ==
    IF emoji \in DOMAIN self_assignable_roles
    THEN get_role(self_assignable_roles[emoji])
    ELSE "None"

\* Whether on_raw_reaction_add ignores the reacting member.
is_bot(member) == member = BotUser

\* on_raw_reaction_add, up to its first await; task holds the payload.
\* Reading member.id of None raises AttributeError.
raw_reaction_add(task) ==
    IF task.channel # react_for_roles_channel_id THEN Finish(task)
    ELSE LET member == get_member(task.member)
             role   == get_assignable_role(task.emoji)
         IN IF member = "None" THEN Throw(task, "AttributeError")
            ELSE IF is_bot(member) THEN Finish(task)
            ELSE IF role # "None" THEN IssueRole(task, "react_add", "add_roles", role)
            ELSE Finish(task)

\* on_raw_reaction_remove, up to its first await.  Calling remove_roles of
\* None raises AttributeError.
raw_reaction_remove(task) ==
    IF task.channel # react_for_roles_channel_id THEN Finish(task)
    ELSE LET member == get_member(task.member)
             role   == get_assignable_role(task.emoji)
         IN IF role # "None"
            THEN IF member = "None" THEN Throw(task, "AttributeError")
                 ELSE IssueRole(task, "react_remove", "remove_roles", role)
            ELSE Finish(task)

Payload(kind, user, channel, emoji) ==
    [Task(kind, user, "start") EXCEPT !.channel = channel, !.emoji = emoji]

\* The gateway delivers a raw reaction-add event.
on_raw_reaction_add(user, channel, emoji) ==
    /\ NextSlot <= MaxTasks
    /\ tasks' = [tasks EXCEPT ![NextSlot] =
            raw_reaction_add(Payload("reaction_add", user, channel, emoji))]
    /\ UNCHANGED <<db, member_roles, lock, events, edits, other_vars>>

\* The gateway delivers a raw reaction-remove event.
on_raw_reaction_remove(user, channel, emoji) ==
    /\ NextSlot <= MaxTasks
    /\ tasks' = [tasks EXCEPT ![NextSlot] =
            raw_reaction_remove(Payload("reaction_remove", user, channel, emoji))]
    /\ UNCHANGED <<db, member_roles, lock, events, edits, other_vars>>

\* member.add_roles(role) of on_raw_reaction_add returns: the DM is made and
\* awaited.
ReactionAdded(t) ==
    /\ Served(t, "react_add")
    /\ tasks' = [tasks EXCEPT ![t] =
            IF @.served = "http" THEN Throw(@, "HTTPException")
            ELSE Issue(@, "react_send", "send", "member")]
    /\ UNCHANGED <<db, member_roles, lock, events, edits, other_vars>>

\* member.send of on_raw_reaction_add returns, or raises HTTPException (the
\* member accepts no DM).
ReactionSent(t) ==
    /\ Running(t, "react_send")
    /\ \E ok \in BOOLEAN :
         tasks' = [tasks EXCEPT ![t] =
            IF ok THEN Finish(@)
            ELSE Throw([@ EXCEPT !.fault = TRUE], "HTTPException")]
    /\ UNCHANGED <<db, member_roles, lock, events, edits, other_vars>>

\* member.remove_roles(role) of on_raw_reaction_remove returns.
ReactionRemoved(t) ==
    /\ Served(t, "react_remove")
    /\ tasks' = [tasks EXCEPT ![t] =
            IF @.served = "http" THEN Throw(@, "HTTPException") ELSE Finish(@)]
    /\ UNCHANGED <<db, member_roles, lock, events, edits, other_vars>>

\* Role sets a member can hold when the bot starts.
InitRoleSets == {{}, {"r1"}}

InitReact ==
    /\ rest_req = NoRequest
    /\ rest_out = Pending
    /\ db = [m \in GuildUsers |->
               IF m = BotUser THEN NoRecord ELSE Rec(TRUE, TRUE, TRUE, "null", <<>>)]
    /\ member_roles \in {f \in [GuildUsers -> InitRoleSets] : f["m2"] = {}}
    /\ lock = FALSE
    /\ events = <<>>
    /\ edits = <<>>
    /\ tasks = [t \in TaskIds |-> NoTask]
    /\ py_alias = FALSE
    /\ env = 0
    /\ warnings = <<>>
    /\ rules = "None"

NextReact ==
    \/ \E u \in ReactUsers, c \in Channels, e \in Emojis : on_raw_reaction_add(u, c, e)
    \/ \E u \in ReactUsers, c \in Channels, e \in Emojis : on_raw_reaction_remove(u, c, e)
    \/ \E t \in TaskIds :
         \/ ServeRoleOp(t)
         \/ ReactionAdded(t)
         \/ ReactionSent(t)
         \/ ReactionRemoved(t)
    \/ on_member_update
    \/ \E i \in DOMAIN edits : EditAnswered(i)

SpecReact == InitReact /\ [][NextReact]_vars


-----------------------------------------------------------------------------
(* The submit command: bot/cogs/tortoise_server.py                          *)

\* The check of submit on a message: from the author, in a DM.
check(msg, author) == msg.author = author /\ msg.guild = "None"

\* Messages the bot can receive while a submit waits.
Messages == [author : Members, guild : {"None", "tortoise"}]

\* Whether "except TimeoutError" catches asyncio.TimeoutError: only where the
\* build makes the two the same class.
catches_timeout(alias) == alias

\* submit after wait_for raised asyncio.TimeoutError.
submit_timeout(task, alias) ==
    IF catches_timeout(alias)
    THEN Issue(task, "submit_failure", "send", "ctx:You took too long to reply.")
    ELSE Throw(task, "asyncio.TimeoutError")

\* The command is invoked: submit runs up to its first await, the DM to the
\* author.
submit(author) ==
    /\ NextSlot <= MaxTasks
    /\ tasks' = [tasks EXCEPT ![NextSlot] =
            Issue(Task("submit", author, "start"), "submit_dm", "send", "author")]
    /\ UNCHANGED <<db, member_roles, lock, events, edits, other_vars>>

\* ctx.author.send returns, or fails (the author accepts no DM); the command
\* waits for the reply.
SubmitDm(t) ==
    /\ Running(t, "submit_dm")
    /\ \E ok \in BOOLEAN :
         tasks' = [tasks EXCEPT ![t] =
            IF ok THEN Issue(@, "wait_for", "wait_for", "message")
            ELSE Throw([@ EXCEPT !.fault = TRUE], "HTTPException")]
    /\ UNCHANGED <<db, member_roles, lock, events, edits, other_vars>>

\* A message arrives while the command waits: wait_for returns it when check
\* accepts it, and the submission is posted; otherwise the wait goes on.
SubmitMessage(t, msg) ==
    /\ Running(t, "wait_for")
    /\ tasks' = [tasks EXCEPT ![t] =
            IF check(msg, @.member)
            THEN Issue(@, "submit_post", "send", "code_submissions_channel")
            ELSE @]
    /\ UNCHANGED <<db, member_roles, lock, events, edits, other_vars>>

\* The 300 seconds pass: wait_for raises asyncio.TimeoutError.
SubmitTimeout(t) ==
    /\ Running(t, "wait_for")
    /\ tasks' = [tasks EXCEPT ![t] = submit_timeout([@ EXCEPT !.cur = "timeout"], py_alias)]
    /\ UNCHANGED <<db, member_roles, lock, events, edits, other_vars>>

\* The last send of the command returns, or raises HTTPException, which
\* leaves the command (neither send is inside a try).
SubmitSent(t) ==
    /\ tasks[t].status = "running"
    /\ tasks[t].pc \in {"submit_failure", "submit_post"}
    /\ \E ok \in BOOLEAN :
         tasks' = [tasks EXCEPT ![t] =
            IF ok THEN Finish(@)
            ELSE Throw([@ EXCEPT !.fault = TRUE], "HTTPException")]
    /\ UNCHANGED <<db, member_roles, lock, events, edits, other_vars>>

InitSubmit ==
    /\ rest_req = NoRequest
    /\ rest_out = Pending
    /\ db = [m \in GuildUsers |-> NoRecord]
    /\ member_roles = [m \in GuildUsers |-> {}]
    /\ lock = FALSE
    /\ events = <<>>
    /\ edits = <<>>
    /\ tasks = [t \in TaskIds |-> NoTask]
    /\ py_alias \in BOOLEAN
    /\ env = 0
    /\ warnings = <<>>
    /\ rules = "None"

NextSubmit ==
    \/ \E a \in Members : submit(a)
    \/ \E t \in TaskIds :
         \/ SubmitDm(t)
         \/ \E msg \in Messages : SubmitMessage(t, msg)
         \/ SubmitTimeout(t)
         \/ SubmitSent(t)

SpecSubmit == InitSubmit /\ [][NextSubmit]_vars

-----------------------------------------------------------------------------
(* One call of a verb method of APIClient                                   *)

RestCall ==
    /\ rest_out = Pending
    /\ rest_out' = call(rest_req.verb, rest_req.resp)
    /\ UNCHANGED <<rest_req, db, member_roles, lock, events, edits, tasks, py_alias,
                   env, warnings, rules>>

InitREST ==
    /\ rest_req \in [verb : Verbs, resp : Responses]
    /\ rest_out = Pending
    /\ db = [m \in GuildUsers |-> NoRecord]
    /\ member_roles = [m \in GuildUsers |-> {}]
    /\ lock = FALSE
    /\ events = <<>>
    /\ edits = <<>>
    /\ tasks = [t \in TaskIds |-> NoTask]
    /\ py_alias = FALSE
    /\ env = 0
    /\ warnings = <<>>
    /\ rules = "None"

NextREST == RestCall

SpecREST == InitREST /\ [][NextREST]_vars


-----------------------------------------------------------------------------
(* A verified member re-joins while others change a resident member          *)

\* How many changes others make to a member in one behaviour.
MaxEnv == 1

\* The member who re-joins, and a verified member who stays in the guild.
Joiner == "m1"

Resident == "m2"

\* Roles a moderator grants and revokes by hand.
ModeratorRoles == {"r1"}

\* A moderator toggles a role of member m: the gateway emits a member-update
\* event whose before.roles and after.roles differ.
ModeratorRoleChange(m, role) ==
    /\ env < MaxEnv
    /\ LET before == member_roles[m]
           after  == IF role \in before THEN before \ {role} ELSE before \cup {role}
       IN /\ member_roles' = [member_roles EXCEPT ![m] = after]
          /\ events' = Append(events, [member |-> m, before |-> before,
                                       after |-> after, origin |-> "moderator"])
    /\ env' = env + 1
    /\ UNCHANGED <<db, lock, edits, tasks, rest_req, rest_out, py_alias, warnings, rules>>

\* Member m changes its nickname or status: the gateway emits a member-update
\* event whose before.roles and after.roles are equal.
ProfileUpdate(m) ==
    /\ env < MaxEnv
    /\ events' = Append(events, [member |-> m, before |-> member_roles[m],
                                 after |-> member_roles[m], origin |-> "profile"])
    /\ env' = env + 1
    /\ UNCHANGED <<db, member_roles, lock, edits, tasks, rest_req, rest_out, py_alias,
                   warnings, rules>>

\* TortoiseAPI.member_left is called for member m (by the listener of member
\* removals, which is outside this cog): one put, applied or failed.
member_left(m) ==
    /\ env < MaxEnv
    /\ \E resp \in RecordResponses(db[m]) :
         db' = IF call("put", resp).kind = "raise" THEN db
               ELSE [db EXCEPT ![m] = ApplyWrite(@, member_left_data)]
    /\ env' = env + 1
    /\ UNCHANGED <<member_roles, lock, events, edits, tasks, rest_req, rest_out, py_alias,
                   warnings, rules>>

InitMod ==
    /\ rest_req = NoRequest
    /\ rest_out = Pending
    /\ \E rs \in StoredRoleLists :
         db = [m \in GuildUsers |->
                  IF m = Joiner THEN Rec(TRUE, TRUE, FALSE, "t0", rs)
                  ELSE IF m = Resident THEN Rec(TRUE, TRUE, TRUE, "null", <<"verified">>)
                  ELSE NoRecord]
    /\ member_roles = [m \in GuildUsers |-> IF m = Resident THEN {"verified"} ELSE {}]
    /\ lock = FALSE
    /\ events = <<>>
    /\ edits = <<>>
    /\ tasks = [t \in TaskIds |-> NoTask]
    /\ py_alias = FALSE
    /\ env = 0
    /\ warnings = <<>>
    /\ rules = "None"

\* The joiner joins while moderators act on the resident member.
NextMod ==
    \/ on_member_join(Joiner)
    \/ \E t \in TaskIds :
         \/ JoinMeta(t)
         \/ JoinInsert(t)
         \/ ServeRoleOp(t)
         \/ JoinAddUnverified(t)
         \/ JoinSend(t)
         \/ JoinGetRoles(t)
         \/ AddVerifiedStart(t)
         \/ AddVerifiedLoop(t)
         \/ JoinRejoinedVerified(t)
    \/ \E role \in ModeratorRoles : ModeratorRoleChange(Resident, role)
    \/ ProfileUpdate(Resident)
    \/ on_member_update
    \/ \E i \in DOMAIN edits : EditAnswered(i)

SpecMod == InitMod /\ [][NextMod]_vars

\* The writes to the remote record of one member: the joiner joins, leaves
\* and joins again, and the listener saves its role changes.
NextLeave ==
    \/ on_member_join(Joiner)
    \/ member_left(Joiner)
    \/ \E t \in TaskIds :
         \/ JoinMeta(t)
         \/ JoinInsert(t)
         \/ ServeRoleOp(t)
         \/ JoinAddUnverified(t)
         \/ JoinSend(t)
         \/ JoinGetRoles(t)
         \/ AddVerifiedStart(t)
         \/ AddVerifiedLoop(t)
         \/ JoinRejoinedVerified(t)
         \/ JoinRejoinedUnverified(t)
         \/ JoinReaddUnverified(t)
    \/ on_member_update
    \/ \E i \in DOMAIN edits : EditAnswered(i)

SpecLeave == Init /\ [][NextLeave]_vars

-----------------------------------------------------------------------------
(* Warnings: bot/api_client.py                                              *)

\* Everything but the tasks and the stored warnings.
warn_frame == <<rest_req, rest_out, db, member_roles, lock, events, edits, py_alias,
                env, rules>>

\* The member the moderators warn.
Warned == "m1"

Reasons == {"spam", "abuse"}

\* A warning is held as a dict or as a str (a "stringed dict").
json_dumps(w) == [w EXCEPT !.form = "str"]

\* json.loads accepts a str only; for anything else it raises TypeError.
loads_raises(item) == item.form # "str"

json_loads(item) == [item EXCEPT !.form = "dict"]

\* A warning stored before the bot starts.
OldWarning == [mod |-> "mod", reason |-> "old", date |-> 0, form |-> "str"]

\* new_warning of add_member_warning; every call reads a later clock.
new_warning(t, reason) == [mod |-> "mod", reason |-> reason, date |-> t, form |-> "dict"]

\* [json.loads(item) for item in warnings]
deserialized_warnings(stored) == [i \in DOMAIN stored |-> json_loads(stored[i])]

\* add_member_warning is called: it builds new_warning and awaits
\* get_member_warnings, which awaits get_member_meta.
add_member_warning(reason) ==
    /\ NextSlot <= MaxTasks
    /\ tasks' = [tasks EXCEPT ![NextSlot] =
            Issue([Task("warn", Warned, "none") EXCEPT
                       !.new_warning = new_warning(NextSlot, reason)],
                  "get_member_warnings", "get_member_meta", Warned)]
    /\ UNCHANGED <<warnings, warn_frame>>

\* get_member_meta answers: get_member_warnings deserializes the stored list,
\* add_member_warning appends the new warning as a str and sends the put.
WarnRead(t) ==
    /\ Running(t, "get_member_warnings")
    /\ \E resp \in {OkResp, ErrResp} :
         LET out == call("get", resp)
         IN tasks' = [tasks EXCEPT ![t] =
                IF out.kind = "raise" THEN Throw(Failed(@, resp), out.exc)
                ELSE IF \E i \in DOMAIN warnings : loads_raises(warnings[i])
                     THEN Throw(@, "TypeError")
                     ELSE Issue([@ EXCEPT !.current_warnings =
                                    Append(deserialized_warnings(warnings),
                                           json_dumps(tasks[t].new_warning))],
                                "put_warnings", "put", Warned)]
    /\ UNCHANGED <<warnings, warn_frame>>

\* The remote API keeps the list it is sent as the record's warnings.
stored_warnings(payload) == payload

\* The put of the warnings payload answers.
WarnPut(t) ==
    /\ Running(t, "put_warnings")
    /\ \E resp \in {OkResp, ErrResp} :
         LET out == call("put", resp)
         IN IF out.kind = "raise"
            THEN /\ tasks' = [tasks EXCEPT ![t] = Throw(Failed(@, resp), out.exc)]
                 /\ UNCHANGED warnings
            ELSE /\ tasks' = [tasks EXCEPT ![t] = Finish(@)]
                 /\ warnings' = stored_warnings(tasks[t].current_warnings)
    /\ UNCHANGED warn_frame

InitWarn ==
    /\ rest_req = NoRequest
    /\ rest_out = Pending
    /\ db = [m \in GuildUsers |-> NoRecord]
    /\ member_roles = [m \in GuildUsers |-> {}]
    /\ lock = FALSE
    /\ events = <<>>
    /\ edits = <<>>
    /\ tasks = [t \in TaskIds |-> NoTask]
    /\ py_alias = FALSE
    /\ env = 0
    /\ warnings \in {<<>>, <<OldWarning>>}
    /\ rules = "None"

NextWarn ==
    \/ \E reason \in Reasons : add_member_warning(reason)
    \/ \E t \in TaskIds : WarnRead(t) \/ WarnPut(t)

SpecWarn == InitWarn /\ [][NextWarn]_vars

-----------------------------------------------------------------------------
(* Rules cache: bot/cogs/tortoise_server.py                                 *)

\* Everything but the tasks and the cache.
rules_frame == <<rest_req, rest_out, db, member_roles, lock, events, edits, py_alias,
                 env, warnings>>

Rule(number, alias, statement) ==
    [number |-> number, alias |-> alias, statement |-> statement]

\* The JSON texts the rules endpoint answers with, and the list each parses
\* to: no rule; one rule; that rule reworded and a second one.
RulesBodies == {"[]", "[r1]", "[r1b,r2]"}

Items(value) ==
    CASE value = "[r1]" -> <<Rule(1, {"tos"}, "s1")>>
      [] value = "[r1b,r2]" -> <<Rule(1, {"tos", "terms"}, "s1b"), Rule(2, {"spam"}, "s2")>>
      [] OTHER -> <<>>

\* Iterating self._rules raises TypeError when it is None.
Iterable(value) == value # "None"

\* Answers of GET rules/: a list; an empty body; a server error; a page that
\* is not JSON.
RulesResponses ==
    {[status |-> 200, ctype |-> "json", body |-> b] : b \in RulesBodies \cup {""}}
        \cup {ErrResp, [status |-> 200, ctype |-> "other", body |-> "<html>"]}

\* The cache after a fetch that failed is reset.
rules_reset_on_failure(old, out) == IF out.kind = "return" THEN out.value ELSE "None"

\* self._rules after the try statement of refresh_rules_helper.
rules_after_refresh(old, out) == IF out.kind = "return" THEN out.value ELSE old

\* What follows refresh_rules_helper in its caller: the command confirms, the
\* timer loop ends its iteration.
after_refresh(task) ==
    IF task.kind = "refresh_rules" THEN Issue(task, "command_send", "send", "Done")
    ELSE Finish(task)

\* The slot of the 24-hour loop: the loop is one task, whose iterations follow
\* one another.
LoopSlot ==
    IF \E t \in Started : tasks[t].kind = "update_rules"
    THEN CHOOSE t \in Started : tasks[t].kind = "update_rules"
    ELSE NextSlot

\* The 24-hour loop starts an iteration: the first one when the cog is
\* constructed, the next one after the previous one returned.  An exception
\* that leaves an iteration ends the loop.
update_rules ==
    /\ LoopSlot <= MaxTasks
    /\ tasks[LoopSlot].kind = "update_rules" => tasks[LoopSlot].status = "done"
    /\ tasks' = [tasks EXCEPT ![LoopSlot] =
            Issue(Task("update_rules", "none", "none"),
                  "get_all_rules", "get_all_rules", "rules/")]
    /\ UNCHANGED <<rules, rules_frame>>

\* The refresh_rules command is invoked.
refresh_rules ==
    /\ NextSlot <= MaxTasks
    /\ tasks' = [tasks EXCEPT ![NextSlot] =
            Issue(Task("refresh_rules", "none", "none"),
                  "get_all_rules", "get_all_rules", "rules/")]
    /\ UNCHANGED <<rules, rules_frame>>

\* get_all_rules answers: the cache is assigned, or the failure is logged and
\* bot.log_error awaited.
RefreshFetch(t) ==
    /\ Running(t, "get_all_rules")
    /\ \E resp \in RulesResponses :
         LET out == call("get", resp)
         IN /\ tasks' = [tasks EXCEPT ![t] =
                   IF out.kind = "return"
                   THEN after_refresh([@ EXCEPT !.fetched = out])
                   ELSE Issue([Failed(@, resp) EXCEPT !.fetched = out],
                              "log_error", "log_error", out.exc)]
            /\ rules' = rules_after_refresh(rules, out)
    /\ UNCHANGED rules_frame

\* bot.log_error returns, or raises: the await is inside the except block and
\* nothing catches what it raises.
RefreshLogged(t) ==
    /\ Running(t, "log_error")
    /\ \E ok \in BOOLEAN :
         tasks' = [tasks EXCEPT ![t] =
            IF ok THEN after_refresh(@) ELSE Throw(@, "Exception")]
    /\ UNCHANGED <<rules, rules_frame>>

\* The argument of the rule command: converted to int when it can be.
IntAlias(n) == [is_int |-> TRUE, number |-> n, text |-> ""]

StrAlias(a) == [is_int |-> FALSE, number |-> 0, text |-> a]

AliasInputs ==
    {IntAlias(n) : n \in {1, 2}} \cup {StrAlias(a) : a \in {"TOS", "terms", "nope"}}

\* str.lower
lower(text) == IF text = "TOS" THEN "tos" ELSE text

\* The first of the indices hits (the rule a loop returns at), 0 for None.
FirstOf(hits) == IF hits = {} THEN 0 ELSE CHOOSE i \in hits : \A j \in hits : i <= j

\* _get_rule_by_value: the index of the rule returned, 0 for None.
get_rule_by_value(list, number) ==
    FirstOf({i \in DOMAIN list : list[i].number = number})

\* _get_rule_by_alias: the index of the rule returned, 0 for None.
get_rule_by_alias(list, alias) ==
    FirstOf({i \in DOMAIN list : lower(alias) \in list[i].alias})

\* The rule command is invoked: the lookup runs and the answer is sent.
rule(alias) ==
    /\ NextSlot <= MaxTasks
    /\ LET task == [Task("rule", "none", "none") EXCEPT !.cur = alias]
           list == Items(rules)
           i    == IF alias.is_int THEN get_rule_by_value(list, alias.number)
                   ELSE get_rule_by_alias(list, alias.text)
           text == IF i = 0 THEN "No such rule." ELSE list[i].statement
       IN tasks' = [tasks EXCEPT ![NextSlot] =
              IF ~Iterable(rules) THEN Throw(task, "TypeError")
              ELSE Issue([task EXCEPT !.shown = <<text>>], "command_send", "send", text)]
    /\ UNCHANGED <<rules, rules_frame>>

\* The rules command is invoked: one entry per cached rule is sent.
rules_command ==
    /\ NextSlot <= MaxTasks
    /\ LET task == Task("rules", "none", "none")
       IN tasks' = [tasks EXCEPT ![NextSlot] =
              IF ~Iterable(rules) THEN Throw(task, "TypeError")
              ELSE Issue([task EXCEPT !.shown = Items(rules)],
                         "command_send", "send", "Rules")]
    /\ UNCHANGED <<rules, rules_frame>>

\* ctx.send of a command returns: the last statement of refresh_rules and
\* rule; the rules command goes on to RemovableMessage.create_instance.  Or
\* it raises HTTPException, which leaves the command.
CommandSent(t) ==
    /\ Running(t, "command_send")
    /\ \E ok \in BOOLEAN :
         tasks' = [tasks EXCEPT ![t] =
            IF ~ok THEN Throw([@ EXCEPT !.fault = TRUE], "HTTPException")
            ELSE IF @.kind = "rules"
            THEN Issue(@, "create_instance", "create_instance", "RemovableMessage")
            ELSE Finish(@)]
    /\ UNCHANGED <<rules, rules_frame>>

\* RemovableMessage.create_instance of the rules command returns.
RemovableCreated(t) ==
    /\ Running(t, "create_instance")
    /\ tasks' = [tasks EXCEPT ![t] = Finish(@)]
    /\ UNCHANGED <<rules, rules_frame>>

InitRules ==
    /\ rest_req = NoRequest
    /\ rest_out = Pending
    /\ db = [m \in GuildUsers |-> NoRecord]
    /\ member_roles = [m \in GuildUsers |-> {}]
    /\ lock = FALSE
    /\ events = <<>>
    /\ edits = <<>>
    /\ tasks = [t \in TaskIds |-> NoTask]
    /\ py_alias = FALSE
    /\ env = 0
    /\ warnings = <<>>
    /\ rules = "None"

NextRules ==
    \/ update_rules
    \/ refresh_rules
    \/ \E alias \in AliasInputs : rule(alias)
    \/ rules_command
    \/ \E t \in TaskIds :
         \/ RefreshFetch(t)
         \/ RefreshLogged(t)
         \/ CommandSent(t)
         \/ RemovableCreated(t)

SpecRules == InitRules /\ [][NextRules]_vars

-----------------------------------------------------------------------------
(* is_verified and does_member_exist: bot/api_client.py                     *)

\* Raw bodies of the verify-confirmation endpoint: empty; an object without
\* the key; {'verified': True}; {'verified': False}; text that is not JSON.
VerifyBodies == {"", "{}", "{verified:true}", "{verified:false}", "<html>"}

VerifyResponses == [status : Statuses, ctype : ContentTypes, body : VerifyBodies]

\* data["verified"]: TypeError when data is None, KeyError without the key.
subscript_verified(data) ==
    IF data = "None" THEN Raise("TypeError")
    ELSE IF data = "{verified:true}" THEN Return("True")
    ELSE IF data = "{verified:false}" THEN Return("False")
    ELSE Raise("KeyError")

\* is_verified that never re-raises, whatever re_raise is.
is_verified_swallowing(resp, re_raise) ==
    LET out == call("get", resp) IN
    IF out.kind = "raise"
    THEN IF out.exc = "ResponseCodeError" THEN Return("False") ELSE out
    ELSE subscript_verified(out.value)

\* TortoiseAPI.is_verified on the response the request got.
is_verified(resp, re_raise) ==
    LET out == call("get", resp) IN
    IF out.kind = "raise"
    THEN IF out.exc = "ResponseCodeError"
         THEN IF re_raise THEN out ELSE Return("False")
         ELSE out
    ELSE subscript_verified(out.value)

\* TortoiseAPI.does_member_exist on the response the request got.
does_member_exist(resp) ==
    LET out == is_verified(resp, TRUE) IN
    IF out.kind = "return" THEN Return("True")
    ELSE IF out.exc = "ResponseCodeError" THEN Return("False")
    ELSE out

\* Everything a call of the two functions leaves alone.
verify_frame == <<rest_req, db, member_roles, lock, events, edits, tasks, py_alias,
                  env, warnings, rules>>

IsVerifiedCall ==
    /\ rest_out = Pending
    /\ rest_req.verb = "is_verified"
    /\ rest_out' = is_verified(rest_req.resp, rest_req.re_raise)
    /\ UNCHANGED verify_frame

DoesMemberExistCall ==
    /\ rest_out = Pending
    /\ rest_req.verb = "does_member_exist"
    /\ rest_out' = does_member_exist(rest_req.resp)
    /\ UNCHANGED verify_frame

\* The calls checked: is_verified with either re_raise, does_member_exist
\* (which passes no re_raise of its own).
VerifyRequests ==
    [verb : {"is_verified"}, resp : VerifyResponses, re_raise : BOOLEAN]
        \cup [verb : {"does_member_exist"}, resp : VerifyResponses, re_raise : {TRUE}]

InitVerify ==
    /\ rest_req \in VerifyRequests
    /\ rest_out = Pending
    /\ db = [m \in GuildUsers |-> NoRecord]
    /\ member_roles = [m \in GuildUsers |-> {}]
    /\ lock = FALSE
    /\ events = <<>>
    /\ edits = <<>>
    /\ tasks = [t \in TaskIds |-> NoTask]
    /\ py_alias = FALSE
    /\ env = 0
    /\ warnings = <<>>
    /\ rules = "None"

NextVerify == IsVerifiedCall \/ DoesMemberExistCall

SpecVerify == InitVerify /\ [][NextVerify]_vars

-----------------------------------------------------------------------------
(* Properties                                                               *)

JoinTasks == {t \in Started : tasks[t].kind = "join"}

Ended(t) == tasks[t].status # "running"

\* The positions of the calls of a trace whose op is in ops.
Positions(trace, ops) == {i \in DOMAIN trace : trace[i].op \in ops}

RoleOps == {"add_roles", "remove_roles"}

\* The join found no remote record: get_member_meta answered 404.
NotFound(t) == tasks[t].lookup = 404

\* The join found a record: get_member_meta answered 200 with it.
Found(t) == tasks[t].lookup = 200

\* C1: a join whose lookup finds no remote record makes exactly one
\* insert_new_member call; every role request it makes is add_roles of the
\* unverified role and comes after the insert; it never gets the verified role
\* added; and unless one of its calls fails it ends normally with the
\* unverified role assigned.
C1_RegisterThenUnverified ==
    \A t \in JoinTasks : NotFound(t) =>
        LET tr  == tasks[t].trace
            ins == Positions(tr, {"insert_new_member"})
            ops == Positions(tr, RoleOps)
        IN /\ Cardinality(ins) = 1
           /\ Cardinality(ops) <= 1
           /\ \A i \in ops : /\ tr[i] = Call("add_roles", unverified_role)
                             /\ \A j \in ins : j < i
           /\ tasks[t].added \subseteq {unverified_role}
           /\ (tasks[t].added # {}) => db[tasks[t].member].exists
           /\ (Ended(t) /\ ~tasks[t].fault) =>
                 /\ tasks[t].status = "done"
                 /\ tasks[t].added = {unverified_role}

\* C1's case: a join that found no record ended with the insert made and the
\* unverified role assigned.
C1_Witness ==
    \E t \in JoinTasks :
        /\ NotFound(t)
        /\ tasks[t].status = "done"
        /\ tasks[t].added = {unverified_role}
        /\ Positions(tasks[t].trace, {"insert_new_member"}) = {2}

\* C2: a join whose record has leave_date null and verified true ends at once
\* having made no call but the lookup: no remote write, no role request, no
\* message, and no role added.
C2_CurrentVerifiedNoOp ==
    \A t \in JoinTasks :
        (Found(t) /\ tasks[t].snap.leave_date = "null" /\ tasks[t].snap.verified) =>
            /\ tasks[t].status = "done"
            /\ tasks[t].trace = <<Call("get_member_meta", tasks[t].member)>>
            /\ tasks[t].added = {}
            /\ tasks[t].served = "none"

\* C2's case: a join found a verified record with leave_date null and ended.
C2_Witness ==
    \E t \in JoinTasks :
        /\ Found(t)
        /\ tasks[t].snap.leave_date = "null"
        /\ tasks[t].snap.verified
        /\ Ended(t)

\* The join took the verified re-join path.
VerifiedRejoin(t) ==
    Found(t) /\ tasks[t].snap.verified /\ tasks[t].snap.leave_date # "null"

\* The stored role ids that still exist in the guild.
Existing(ids) == {ids[i] : i \in DOMAIN ids} \cap GuildRoles

\* C3 (as claimed): when a verified re-join has ended and none of its requests
\* failed, no exception left the handler and the roles added are exactly the
\* stored role ids that still exist in the guild plus the verified role.
C3_RestoresExistingPlusVerified ==
    \A t \in JoinTasks :
        (VerifiedRejoin(t) /\ Ended(t) /\ ~tasks[t].fault) =>
            /\ tasks[t].status = "done"
            /\ tasks[t].added = Existing(tasks[t].previous_roles) \cup {verified_role}

\* C4 (as claimed): on_member_update never sends edit_member_roles for a role
\* change made by the loop of add_verified_roles_to_member.
C4_GuardSuppressesBulk == \A i \in DOMAIN edits : edits[i].origin # "bulk"

ReactionTasks == {t \in Started : tasks[t].kind \in {"reaction_add", "reaction_remove"}}

OnReactChannel(t) == tasks[t].channel = react_for_roles_channel_id

\* C5 (as claimed): a reaction event on the react-for-roles channel whose
\* emoji yields no role makes no role request and raises nothing, whoever the
\* user is.
C5_UnmappedEmojiNoEffect ==
    \A t \in ReactionTasks :
        (OnReactChannel(t) /\ get_assignable_role(tasks[t].emoji) = "None") =>
            /\ tasks[t].status = "done"
            /\ tasks[t].trace = <<>>

\* C9 (as claimed): a reaction event on the react-for-roles channel whose user
\* is the bot makes no role request and sends no DM.
C9_BotReactionsIgnored ==
    \A t \in ReactionTasks :
        (OnReactChannel(t) /\ tasks[t].member = BotUser) =>
            /\ tasks[t].trace = <<>>
            /\ tasks[t].added = {}

NonSuccess(status) == status < 200 \/ status >= 300

Called == rest_out # Pending

\* C6 (as claimed): for a response with a non-2xx status the call raises
\* ResponseCodeError with that status, carrying exactly one of a non-empty
\* response_json and a non-empty response_text.
C6_NonSuccessRaisesOneBody ==
    (Called /\ NonSuccess(rest_req.resp.status)) =>
        /\ rest_out.kind = "raise"
        /\ rest_out.exc = "ResponseCodeError"
        /\ rest_out.status = rest_req.resp.status
        /\ (rest_out.response_json # "{}") # (rest_out.response_text # "")

\* The body can be read: it is not announced as JSON, or it is well-formed.
Readable(resp) == resp.ctype # "json" \/ resp.body # "<html>"

\* Bodies that are empty or parse to an empty JSON value.
EmptyBodies == {"", "{}", "[]", "false"}

\* C6 (amended): for a response with a status of 400 or above the call never
\* returns; when the body is readable it raises ResponseCodeError with that
\* status, never carrying both: response_json is the parsed body when the
\* content type is JSON and the parsed body is non-empty, response_text the
\* raw text when the content type is not JSON, and both are empty for an empty
\* body or an empty JSON value; a malformed JSON body raises the decoder's
\* error instead.  For a status below 400 no ResponseCodeError is raised.
C6_ErrorStatusRaises ==
    Called =>
        LET resp == rest_req.resp IN
        /\ resp.status >= 400 =>
              /\ rest_out.kind = "raise"
              /\ Readable(resp) =>
                    /\ rest_out.exc = "ResponseCodeError"
                    /\ rest_out.status = resp.status
                    /\ ~(rest_out.response_json # "{}" /\ rest_out.response_text # "")
                    /\ rest_out.response_json =
                          (IF resp.ctype = "json" /\ resp.body \notin EmptyBodies
                           THEN resp.body ELSE "{}")
                    /\ rest_out.response_text =
                          (IF resp.ctype = "json" THEN "" ELSE resp.body)
              /\ ~Readable(resp) => rest_out.exc = "JSONDecodeError"
        /\ resp.status < 400 => rest_out.exc # "ResponseCodeError"

\* C6's case: a call on a 400 response with a JSON body raised
\* ResponseCodeError carrying the parsed body.
C6_Witness ==
    /\ Called
    /\ rest_req.resp.status = 400
    /\ rest_out.exc = "ResponseCodeError"
    /\ rest_out.status = 400
    /\ rest_out.response_json = "{k:1}"
    /\ rest_out.response_text = ""

\* C7 (as claimed): a join that found a record which is not current and
\* verified, has ended and had none of its requests fail, made exactly one
\* member_rejoined call: on the verified path after get_member_roles and the
\* role requests, on the unverified path before the one role request (the
\* unverified role) and the sends, without reading the stored roles.
C7_RejoinedExactlyOnce ==
    \A t \in JoinTasks :
        (Found(t) /\ ~(tasks[t].snap.leave_date = "null" /\ tasks[t].snap.verified)
            /\ Ended(t) /\ ~tasks[t].fault) =>
            LET tr  == tasks[t].trace
                rej == Positions(tr, {"member_rejoined"})
                ops == Positions(tr, RoleOps)
            IN /\ Cardinality(rej) = 1
               /\ tasks[t].snap.verified =>
                     \A j \in rej : \A i \in ops \cup Positions(tr, {"get_member_roles"}) : i < j
               /\ ~tasks[t].snap.verified =>
                     /\ \A j \in rej : \A i \in ops \cup Positions(tr, {"send"}) : j < i
                     /\ Positions(tr, {"get_member_roles"}) = {}
                     /\ tasks[t].added = {unverified_role}

\* C8 (as claimed): in the remote record of every member, leave_date is null
\* whenever member is true.
C8_LeaveDateNullWhileMember ==
    \A m \in GuildUsers : (db[m].exists /\ db[m].member) => db[m].leave_date = "null"

SubmitTasks == {t \in Started : tasks[t].kind = "submit"}

\* The wait of the submit command timed out.
TimedOut(t) == tasks[t].cur = "timeout"

\* C10 (as claimed): when the wait of a submit command times out, the timeout
\* does not leave the command (no exception does, unless the send of the
\* failure message itself fails), the failure message is sent to the invoking
\* channel and nothing is posted to the code-submissions channel.
C10_TimeoutCaught ==
    \A t \in SubmitTasks : TimedOut(t) =>
        /\ ~tasks[t].fault => tasks[t].status # "raised"
        /\ tasks[t].trace[Len(tasks[t].trace)] =
              Call("send", "ctx:You took too long to reply.")
        /\ \A i \in DOMAIN tasks[t].trace :
              tasks[t].trace[i] # Call("send", "code_submissions_channel")


DeleteCalled == Called /\ rest_req.verb = "delete"

\* C11 (as claimed): delete returns None for a 204, returns the parsed JSON
\* body for any other status below 400, and raises ResponseCodeError for a
\* status of 400 or above.
C11_DeleteThreeWays ==
    DeleteCalled =>
        LET resp == rest_req.resp IN
        /\ resp.status = 204 => rest_out = Return("None")
        /\ (resp.status # 204 /\ resp.status < 400) =>
              (rest_out.kind = "return" /\ rest_out.value \in {"None", "{}", "{k:1}"})
        /\ resp.status >= 400 => rest_out.exc = "ResponseCodeError"

\* C11 (amended): delete returns None for a 204 whatever the body is; for
\* any other status below 400 it returns the parsed JSON body (None for an
\* empty one) when the content type is JSON and the body well-formed, and
\* otherwise the error of resp.json() propagates; for a status of 400 or above
\* it raises ResponseCodeError, or the decoder's error for a malformed JSON
\* body.
C11_DeleteReadableThreeWays ==
    DeleteCalled =>
        LET resp == rest_req.resp
            json == resp.ctype = "json" /\ resp.body # "<html>"
        IN /\ resp.status = 204 => rest_out = Return("None")
           /\ (resp.status # 204 /\ resp.status < 400) =>
                 /\ json => /\ rest_out.kind = "return"
                            /\ rest_out.value = (IF resp.body = "" THEN "None" ELSE resp.body)
                 /\ resp.ctype # "json" => rest_out.exc = "ContentTypeError"
                 /\ (resp.ctype = "json" /\ resp.body = "<html>") =>
                        rest_out.exc = "JSONDecodeError"
           /\ resp.status >= 400 =>
                 /\ rest_out.kind = "raise"
                 /\ Readable(resp) => rest_out.exc = "ResponseCodeError"
                 /\ ~Readable(resp) => rest_out.exc = "JSONDecodeError"

\* C11's case: delete on a 204 whose body is not JSON returned None.
C11_Witness ==
    /\ DeleteCalled
    /\ rest_req.resp = [status |-> 204, ctype |-> "other", body |-> "<html>"]
    /\ rest_out = Return("None")


RemoteOps == {"get_member_meta", "insert_new_member", "get_member_roles", "member_rejoined"}

Last(trace) == trace[Len(trace)]

\* C12 (as claimed): no remote call of a join handler is made twice, and when
\* one raises the handler ends there with that exception: the failing call is
\* the last thing it did.
C12_FailFastEveryCall ==
    \A t \in JoinTasks :
        /\ \A op \in RemoteOps : Cardinality(Positions(tasks[t].trace, {op})) <= 1
        /\ tasks[t].raised_by # "none" =>
              /\ tasks[t].status = "raised"
              /\ Last(tasks[t].trace).op = tasks[t].raised_by

\* C12 (amended): no remote call of a join handler is made twice; when a
\* remote call other than the get_member_meta lookup raises, the handler ends
\* there with ResponseCodeError, the failing call being the last thing it did
\* (after a failed insert: no role request, no role added, no send); a
\* ResponseCodeError of the lookup is caught and followed by the one insert of
\* the registration path.
C12_FailFastAfterLookup ==
    \A t \in JoinTasks :
        LET tr == tasks[t].trace IN
        /\ \A op \in RemoteOps : Cardinality(Positions(tr, {op})) <= 1
        /\ tasks[t].raised_by \notin {"none", "get_member_meta"} =>
              /\ tasks[t].status = "raised"
              /\ tasks[t].exc = "ResponseCodeError"
              /\ Last(tr).op = tasks[t].raised_by
        /\ tasks[t].raised_by = "insert_new_member" =>
              /\ Positions(tr, RoleOps \cup {"send"}) = {}
              /\ tasks[t].added = {}
        /\ tasks[t].raised_by = "get_member_meta" =>
              (Len(tr) >= 2 /\ tr[2] = Call("insert_new_member", tasks[t].member))

\* C12's case: insert_new_member failed and the handler ended with its error.
C12_Witness ==
    \E t \in JoinTasks :
        /\ tasks[t].raised_by = "insert_new_member"
        /\ tasks[t].status = "raised"
        /\ tasks[t].exc = "ResponseCodeError"


\* A step in which the gateway dispatches the oldest member-update event.
UpdateDispatched == events # <<>> /\ events' = Tail(events)

Position(role) == CHOOSE i \in DOMAIN RoleOrder : RoleOrder[i] = role

\* ids lists every role of S once, in the order of member.roles.
IsListOf(ids, S) ==
    /\ Len(ids) = Cardinality(S)
    /\ {ids[i] : i \in DOMAIN ids} = S
    /\ \A i, j \in DOMAIN ids : i < j => Position(ids[i]) < Position(ids[j])

\* C13: on_member_update invoked with before.roles # after.roles while the flag
\* is false issues exactly one edit_member_roles write, for that member, whose
\* role list is the ids of after.roles in order; invoked with equal roles or
\* with the flag true it issues no remote call.
C13_UpdateSavesAllRoles ==
    [][UpdateDispatched =>
          LET e == Head(events) IN
          IF e.before # e.after /\ ~lock
          THEN /\ Len(edits') = Len(edits) + 1
               /\ SubSeq(edits', 1, Len(edits)) = edits
               /\ edits'[Len(edits')].member = e.member
               /\ IsListOf(edits'[Len(edits')].roles, e.after)
          ELSE edits' = edits /\ db' = db]_vars

\* C13's case: a moderator's change of the resident member was written, and
\* the list written has two roles to order.
C13_Witness ==
    \E i \in DOMAIN edits :
        /\ edits[i].origin = "moderator"
        /\ edits[i].member = Resident
        /\ edits[i].roles = <<"verified", "r1">>


\* Task t is inside add_verified_roles_to_member: awaiting remove_roles, or in
\* the loop between the flag-set step and the flag-clear step.
InLoop(t) == Running(t, "add_role")

InBulk(t) == Running(t, "remove_unverified") \/ InLoop(t)

\* C14 (as claimed): whenever no add_verified_roles_to_member call is in
\* progress, the guard flag is false.
C14_FlagFalseWhenIdle == (\A t \in Started : ~InBulk(t)) => ~lock

\* C15 (as claimed): the guard flag is true as long as some bulk role
\* application is between its flag-set step and its flag-clear step.
C15_FlagHeldWhileAnyLoop == (\E t \in Started : InLoop(t)) => lock


\* The event is a role change made by someone other than the bulk restore.
ByOthers(e) == e.origin \in {"moderator", "reaction"} /\ e.before # e.after

\* C16 (as claimed): whenever on_member_update is dispatched for a role change
\* of a member made by a moderator or a reaction role, it sends an
\* edit_member_roles write for that member, whatever the guard flag is.
C16_OthersChangesWritten ==
    [][(UpdateDispatched /\ ByOthers(Head(events))) =>
          /\ Len(edits') = Len(edits) + 1
          /\ edits'[Len(edits')].member = Head(events).member]_vars


\* C17 (as claimed): a join handler for a member that had a remote record when
\* get_member_meta was answered never calls insert_new_member, and never
\* requests the unverified role when that record is verified.
C17_RegistrationOnlyWithoutRecord ==
    \A t \in JoinTasks :
        (tasks[t].lookup # 0 /\ tasks[t].snap.exists) =>
            /\ Positions(tasks[t].trace, {"insert_new_member"}) = {}
            /\ tasks[t].snap.verified =>
                  \A i \in Positions(tasks[t].trace, {"add_roles"}) :
                      tasks[t].trace[i].arg # unverified_role


WarnTasks == {t \in Started : tasks[t].kind = "warn"}

\* The warnings of a list, whatever form each is held in.
Entries(list) == {json_dumps(list[i]) : i \in DOMAIN list}

\* C18 (as claimed): after an add_member_warning call has completed, the
\* stored list holds every warning that call read and the warning it added.
C18_NoWarningLost ==
    \A t \in WarnTasks :
        tasks[t].status = "done" =>
            Entries(tasks[t].current_warnings) \subseteq Entries(warnings)


RefreshTasks == {t \in Started : tasks[t].kind \in {"update_rules", "refresh_rules"}}

LookupTasks == {t \in Started : tasks[t].kind \in {"rule", "rules"}}

\* The lists get_all_rules can return.
Snapshots == {Items(b) : b \in RulesBodies \cup {""}}

\* Whether rule r is the one the argument alias of a rule command names.
Matches(r, alias) ==
    IF alias.is_int THEN r.number = alias.number ELSE lower(alias.text) \in r.alias

\* text is the answer of a rule command for alias when the cache holds snap:
\* the statement of the first rule that matches, or "No such rule.".
AnswerIn(snap, alias, text) ==
    LET hits == {i \in DOMAIN snap : Matches(snap[i], alias)} IN
    IF hits = {} THEN text = "No such rule."
    ELSE \E i \in hits : (\A j \in hits : i <= j) /\ text = snap[i].statement

\* What a rules command shows is one of the lists get_all_rules returned,
\* whole, and what a rule command shows is its answer in one of them.
OneSnapshot ==
    \A t \in LookupTasks :
        tasks[t].exc # "TypeError" =>
            /\ tasks[t].kind = "rules" => tasks[t].shown \in Snapshots
            /\ tasks[t].kind = "rule" =>
                  \E snap \in Snapshots : AnswerIn(snap, tasks[t].cur, tasks[t].shown[1])

\* The confirmation send of the refresh_rules command raised.
ConfirmationFailed(t) ==
    /\ tasks[t].kind = "refresh_rules"
    /\ tasks[t].exc = "HTTPException"
    /\ Last(tasks[t].trace) = Call("send", "Done")

\* bot.log_error raised while refresh t was logging the failure of its fetch.
LoggingFailed(t) ==
    /\ tasks[t].exc = "Exception"
    /\ tasks[t].fetched.kind = "raise"
    /\ Last(tasks[t].trace) = Call("log_error", tasks[t].fetched.exc)

\* No exception leaves a refresh (but that of the confirmation send of the
\* refresh_rules command, which comes after the refresh).
RefreshQuiet ==
    /\ \A t \in RefreshTasks : tasks[t].status = "raised" => ConfirmationFailed(t)
    /\ OneSnapshot

\* The exception of the fetch never leaves a refresh: one that does is raised
\* by bot.log_error or by the confirmation send.
FetchErrorKept ==
    /\ \A t \in RefreshTasks :
          tasks[t].status = "raised" => (ConfirmationFailed(t) \/ LoggingFailed(t))
    /\ OneSnapshot

\* In the step in which get_all_rules answers refresh t.
Answered(t) == Running(t, "get_all_rules") /\ tasks'[t].pc # "get_all_rules"

\* The cache becomes the value returned, or stays as it was while the failure
\* is logged; and nothing else changes the cache.
RefreshStep ==
    /\ \A t \in TaskIds :
          Answered(t) =>
              LET out == tasks'[t].fetched IN
              /\ out.kind \in {"return", "raise"}
              /\ out.kind = "return" => rules' = out.value
              /\ out.kind = "raise" =>
                    /\ rules' = rules
                    /\ tasks'[t].status = "running"
                    /\ Last(tasks'[t].trace) = Call("log_error", out.exc)
    /\ rules' # rules => \E t \in TaskIds : Answered(t)

C20_LookupNeverRaises ==
    \A t \in LookupTasks : ~tasks[t].fault => tasks[t].status # "raised"


\* The verify-confirmation request succeeds: no error status, a JSON body
\* that parses.
Succeeds(resp) == resp.status < 400 /\ resp.ctype = "json" /\ resp.body # "<html>"

\* The request fails with ResponseCodeError.
FailsWithCode(resp) == resp.status >= 400 /\ Readable(resp)

\* The request succeeds with the documented body, {'verified': <bool>}.
HasVerified(resp) == Succeeds(resp) /\ resp.body \in {"{verified:true}", "{verified:false}"}

VerifiedValue(resp) == IF resp.body = "{verified:true}" THEN "True" ELSE "False"

IsVerifiedCalled == Called /\ rest_req.verb = "is_verified"

ExistCalled == Called /\ rest_req.verb = "does_member_exist"

\* C21 (as claimed): is_verified with re_raise false never raises
\* ResponseCodeError, returns a boolean when the request succeeds and false
\* when it fails; with re_raise true it re-raises; does_member_exist returns
\* true exactly when the request succeeds and false exactly when it fails
\* with ResponseCodeError.
C21_VerifiedAndExists ==
    LET resp == rest_req.resp IN
    /\ (IsVerifiedCalled /\ ~rest_req.re_raise) =>
          /\ rest_out.exc # "ResponseCodeError"
          /\ Succeeds(resp) => rest_out \in {Return("True"), Return("False")}
          /\ HasVerified(resp) => rest_out = Return(VerifiedValue(resp))
          /\ FailsWithCode(resp) => rest_out = Return("False")
    /\ (IsVerifiedCalled /\ rest_req.re_raise /\ FailsWithCode(resp)) =>
          rest_out.exc = "ResponseCodeError"
    /\ ExistCalled =>
          /\ rest_out = Return("True") <=> Succeeds(resp)
          /\ rest_out = Return("False") <=> FailsWithCode(resp)

\* C21 (amended): is_verified with re_raise false never raises
\* ResponseCodeError; it returns the verified value when the request succeeds
\* with a body that has the key, and false when the request fails with
\* ResponseCodeError; with re_raise true it re-raises that error with its
\* status; does_member_exist returns true exactly when the request succeeds
\* with a body that has the key and false exactly when it fails with
\* ResponseCodeError; on any other response both raise another exception.
C21_VerifiedKeyAndExists ==
    LET resp == rest_req.resp
        other == /\ rest_out.kind = "raise"
                 /\ rest_out.exc \in {"TypeError", "KeyError", "ContentTypeError",
                                      "JSONDecodeError"}
    IN
    /\ IsVerifiedCalled =>
          /\ ~rest_req.re_raise => rest_out.exc # "ResponseCodeError"
          /\ HasVerified(resp) => rest_out = Return(VerifiedValue(resp))
          /\ FailsWithCode(resp) =>
                IF rest_req.re_raise
                THEN /\ rest_out.exc = "ResponseCodeError"
                     /\ rest_out.status = resp.status
                ELSE rest_out = Return("False")
          /\ (~HasVerified(resp) /\ ~FailsWithCode(resp)) => other
    /\ ExistCalled =>
          /\ rest_out = Return("True") <=> HasVerified(resp)
          /\ rest_out = Return("False") <=> FailsWithCode(resp)
          /\ (~HasVerified(resp) /\ ~FailsWithCode(resp)) => other

\* C21's case: is_verified with re_raise true got a 404 and re-raised it.
C21_Witness ==
    /\ IsVerifiedCalled
    /\ rest_req.re_raise
    /\ rest_req.resp.status = 404
    /\ rest_out.exc = "ResponseCodeError"
    /\ rest_out.status = 404

=============================================================================
